---- MODULE Spec2Model ----
(***************************************************************************)
(* Flashcard study app with Pomodoro timer (React, TypeScript).            *)
(*                                                                         *)
(* The module models the parts of the program, each with its own           *)
(* specification over the shared variables:                                *)
(*   SpecPomo    PomodoroTimer.tsx: the countdown state machine            *)
(*   SpecStreak  PomodoroTimer.tsx: the stats update of a work completion  *)
(*   SpecApp     App: topics, flashcards, active topic, localStorage,      *)
(*               page load with share-link import                         *)
(*   SpecDeck    FlashcardDeck.tsx: the study session                      *)
(*   SpecAccuracy FlashcardDeck.tsx: the accuracy of the completion screen *)
(*                                                                         *)
(* React semantics the model relies on:                                    *)
(*  - a function defined in a component body reads the state and props of  *)
(*    the render that created it; a callback registered by an effect       *)
(*    (setInterval, addEventListener) or handed to setTimeout keeps the    *)
(*    values of that render until the effect runs again (its dependency    *)
(*    array changes);                                                      *)
(*  - an effect runs after a render whose dependency array differs from    *)
(*    the previous render's (Object.is), and after the first render;       *)
(*  - state updates made by one handler are batched into one render.       *)
(***************************************************************************)
EXTENDS Integers, Sequences, FiniteSets, TLC

VARIABLES
    \* ---- App (src/unnamed/part_001) ----
    topics,          \* Topic[]: sequence of [id, name, isPublic]
    flashcards,      \* Flashcard[]: sequence of [id, subject, correctCount, incorrectCount]
    activeTopic,     \* topic id or NULL
    settings,        \* settings record
    isQuizMode,
    pomodoroStats,   \* [completedSessions, totalFocusTime, streakDays, lastSessionDate]
    storage,         \* localStorage: each key is <<>> (absent) or <<value>>
    nowMs,           \* Date.now() as read by the id generators (millisecond ticks)
    \* ---- PomodoroTimer ----
    timerState, timeLeft, currentSession,
    tickClosure,     \* what the interval callback created by the countdown effect reads
    nowHour,         \* Date.now() as read by the streak computation (hours)
    pausedFrom,      \* history: the state pauseTimer was called in
    phase,           \* history: the phase whose countdown is under way ("none" when idle)
    lastOp,          \* history: the operation that produced the current state, and
                     \* its arguments
    \* ---- FlashcardDeck ----
    mounted, displayCards, currentIndex, isFlipped, showAnswer, quizScore,
    isCompleted,
    kbLen,           \* displayCards.length as read by the registered keydown handler
    advTimers,       \* pending setTimeout(nextCard, 1000) closures, oldest first, each
                     \* with the id of the card it was scheduled on (history)
    swipeTimers,     \* pending setTimeout of handleSwipe closures, oldest first
    judgments,       \* history: judgments since the last resetQuiz / mount
    accuracy,        \* the accuracy computed by the completion screen
    \* ---- Sign-in (App, LoginPage, ExistingUserLoginPage, ConfirmationPage) ----
    user,            \* <<>> (null) or <<[email, username]>>
    authStep,        \* 'newUser' | 'existingUser' | 'confirmation' | 'authenticated'
    pendingAuth,     \* <<>> (null) or <<[email, username]>>
    isLoading,       \* isLoading of the sign-in page that is mounted
    loginTimers,     \* pending "await setTimeout(1000)" of the login forms' handleSubmit
    confirmTimers,   \* pending "await setTimeout(1500)" of ConfirmationPage handleSubmit
    storedUser       \* localStorage 'user': <<>> (absent) or <<[email, username]>>

appVars   == <<topics, flashcards, activeTopic, settings, isQuizMode, storage, nowMs>>
pomoVars  == <<timerState, timeLeft, currentSession, tickClosure, pausedFrom, phase>>
deckVars  == <<mounted, displayCards, currentIndex, isFlipped, showAnswer, quizScore,
               isCompleted, kbLen, advTimers, swipeTimers, judgments, accuracy>>
authVars  == <<user, authStep, pendingAuth, isLoading, loginTimers, confirmTimers,
               storedUser>>
vars == <<appVars, pomodoroStats, pomoVars, nowHour, lastOp, deckVars, authVars>>

\* null: no topic id
NULL == 0 - 1

\* History record of an operation without arguments
Op(name) == [op |-> name, arg |-> <<>>]

\* ------------------------------------------------------------------------
\* Bounds of the model
\* ------------------------------------------------------------------------
MaxSessions == 2   \* work sessions completed in one run of SpecPomo
MaxDays == 4       \* days of the calendar the clock runs through
MaxStreak == 3     \* largest streak drawn by SpecStreak

\* ------------------------------------------------------------------------
\* Settings
\* ------------------------------------------------------------------------
\* useState default of App (with durations settable by SettingsPanel or by
\* the settings record rehydrated from localStorage, which is not validated).
DefaultSettings ==
    [autoFlip |-> FALSE, shuffleCards |-> FALSE, swipeEnabled |-> TRUE,
     pomodoroWork |-> 2, pomodoroBreak |-> 1, longBreak |-> 1,
     sessionsUntilLongBreak |-> 2]

\* The pomodoro settings the model draws from: (work, break, longBreak, sessions).
\* Durations are minutes, scaled down; both orders of work and longBreak occur.
PomodoroChoices ==
    { [DefaultSettings EXCEPT !.pomodoroWork = c[1], !.pomodoroBreak = c[2],
                              !.longBreak = c[3], !.sessionsUntilLongBreak = c[4]]
      : c \in { <<2, 1, 1, 2>>, <<1, 1, 2, 3>> } }

SecondsPerMinute == 60

\* ------------------------------------------------------------------------
\* Calendar: Date.prototype.toDateString() is the local calendar day of an
\* instant.  Instants are hours since local midnight of day 0.  The zone
\* observes daylight saving: day 2 has 25 hours (clocks go back), day 4 has
\* 23 hours (clocks go forward), all other days have 24.
\* ------------------------------------------------------------------------
DayLength(d) == IF d = 2 THEN 25 ELSE IF d = 4 THEN 23 ELSE 24

RECURSIVE DayStart(_)
DayStart(d) == IF d <= 0 THEN 0 ELSE DayStart(d - 1) + DayLength(d - 1)

LastHour == DayStart(MaxDays + 1) - 1

\* new Date(t).toDateString(), as a day number
ToDateString(t) ==
    CHOOSE d \in 0..MaxDays : DayStart(d) <= t /\ t < DayStart(d + 1)

\* 86400000 ms
DayMs == 24

NoDay == 0 - 1
NoStats == [completedSessions |-> 0, totalFocusTime |-> 0, streakDays |-> 0,
            lastSessionDate |-> <<>>]

\* ------------------------------------------------------------------------
\* localStorage (App's save effect, src/unnamed/part_001)
\* ------------------------------------------------------------------------
\* localStorage with no key set; a key's value is <<>> (absent) or <<v>>
EmptyStorage == [topics |-> <<>>, flashcards |-> <<>>, activeTopic |-> <<>>,
                 settings |-> <<>>, pomodoroStats |-> <<>>]

\* The save effect: every key is written from the state, but 'activeTopic' only
\* when it is set (if (activeTopic) localStorage.setItem(...)).  JSON.stringify /
\* JSON.parse keep the modelled fields (strings, numbers, booleans) as they are.
Persist(st, ts, cards, active, s, stats) ==
    [topics |-> <<ts>>, flashcards |-> <<cards>>,
     activeTopic |-> IF active # NULL THEN <<active>> ELSE st.activeTopic,
     settings |-> <<s>>, pomodoroStats |-> <<stats>>]

\* ------------------------------------------------------------------------
\* PomodoroTimer
\* ------------------------------------------------------------------------
Running == {"work", "break", "longBreak"}
NoClosure == [settings |-> DefaultSettings, stats |-> NoStats, currentSession |-> 0]
NoPause == [state |-> "idle", timeLeft |-> 0]

Max(a, b) == IF a >= b THEN a ELSE b

\* handleTimerComplete, timerState === 'work': the object given to onUpdateStats,
\* computed from the stats and settings of the callback's render and the clock.
StreakYesterday(now) == ToDateString(now - DayMs)

NewStreakDays(stats, now) ==
    LET today == ToDateString(now)
        lastSessionDate == IF stats.lastSessionDate # <<>>
                           THEN ToDateString(stats.lastSessionDate[1]) ELSE NoDay
    IN IF lastSessionDate = today THEN stats.streakDays
       ELSE IF lastSessionDate = StreakYesterday(now) THEN stats.streakDays + 1
       ELSE 1

WorkCompleteStats(stats, s, now) ==
    [completedSessions |-> stats.completedSessions + 1,
     totalFocusTime    |-> stats.totalFocusTime + s.pomodoroWork,
     streakDays        |-> NewStreakDays(stats, now),
     lastSessionDate   |-> <<now>>]

\* updatePomodoroStats: setPomodoroStats(prev => ({ ...prev, ...stats }))
updatePomodoroStats(prev, upd) ==
    [prev EXCEPT !.completedSessions = upd.completedSessions,
                 !.totalFocusTime = upd.totalFocusTime,
                 !.streakDays = upd.streakDays,
                 !.lastSessionDate = upd.lastSessionDate]

IsLongBreak(session, s) == session % s.sessionsUntilLongBreak = 0

\* The countdown effect (deps [timerState]) creates the interval callback when
\* timerState becomes a running state; the callback reads the settings, stats and
\* currentSession of that render.
Capture(ts, s, st, cs) ==
    IF ts \in Running THEN [settings |-> s, stats |-> st, currentSession |-> cs]
    ELSE NoClosure

wasInBreak(tl, s) == tl <= Max(s.pomodoroBreak, s.longBreak) * SecondsPerMinute

startTimer ==
    /\ timerState \in {"idle", "paused"}
    /\ IF timerState = "idle"
       THEN /\ timerState' = "work"
            /\ timeLeft' = settings.pomodoroWork * SecondsPerMinute
            /\ phase' = "work"
            /\ lastOp' = Op("start")
       ELSE /\ timerState' = IF wasInBreak(timeLeft, settings) THEN "break" ELSE "work"
            /\ timeLeft' = timeLeft
            /\ phase' = phase
            /\ lastOp' = Op("resume")
    /\ tickClosure' = Capture(timerState', settings, pomodoroStats, currentSession)
    /\ UNCHANGED <<currentSession, pausedFrom, pomodoroStats, nowHour, authVars, appVars, deckVars>>

pauseTimer ==
    /\ timerState \in Running
    /\ timerState' = "paused"
    /\ pausedFrom' = [state |-> timerState, timeLeft |-> timeLeft]
    /\ tickClosure' = NoClosure
    /\ lastOp' = Op("pause")
    /\ UNCHANGED <<phase, timeLeft, currentSession, pomodoroStats, nowHour, authVars, appVars, deckVars>>

\* A reset that also clears the stats
resetTimer_ClearsStats ==
    /\ timerState' = "idle"
    /\ timeLeft' = settings.pomodoroWork * SecondsPerMinute
    /\ currentSession' = 1
    /\ tickClosure' = NoClosure
    /\ pausedFrom' = NoPause
    /\ phase' = "none"
    /\ lastOp' = Op("reset")
    /\ pomodoroStats' = NoStats
    /\ UNCHANGED <<nowHour, authVars, appVars, deckVars>>

resetTimer ==
    /\ timerState' = "idle"
    /\ timeLeft' = settings.pomodoroWork * SecondsPerMinute
    /\ currentSession' = 1
    /\ tickClosure' = NoClosure
    /\ pausedFrom' = NoPause
    /\ phase' = "none"
    /\ lastOp' = Op("reset")
    /\ UNCHANGED <<pomodoroStats, nowHour, authVars, appVars, deckVars>>

\* A countdown that does not count
NextTimeLeft_Stuck(prev) == prev

\* The updater of the interval callback when prev > 1: return prev - 1
NextTimeLeft(prev) == prev - 1

\* One firing of the interval callback that does not reach zero.
Tick ==
    /\ timerState \in Running
    /\ timeLeft > 1
    /\ timeLeft' = NextTimeLeft(timeLeft)
    /\ pausedFrom' = NoPause
    /\ lastOp' = Op("tick")
    /\ UNCHANGED <<phase, timerState, currentSession, tickClosure, pomodoroStats, nowHour, authVars,
                   appVars, deckVars>>

\* The firing that reaches zero in a work phase: handleTimerComplete, first branch.
WorkComplete ==
    /\ timerState = "work"
    /\ timeLeft <= 1
    /\ LET c == tickClosure
           isLongBreak == IsLongBreak(c.currentSession, c.settings)
       IN /\ pomodoroStats' = updatePomodoroStats(pomodoroStats,
                                  WorkCompleteStats(c.stats, c.settings, nowHour))
          /\ timerState' = IF isLongBreak THEN "longBreak" ELSE "break"
          /\ timeLeft' = IF isLongBreak THEN c.settings.longBreak * SecondsPerMinute
                         ELSE c.settings.pomodoroBreak * SecondsPerMinute
          /\ currentSession' = currentSession + 1
    /\ tickClosure' = Capture(timerState', settings, pomodoroStats', currentSession')
    /\ pausedFrom' = NoPause
    /\ storage' = Persist(storage, topics, flashcards, activeTopic, settings,
                          pomodoroStats')
    /\ phase' = timerState'
    /\ lastOp' = Op("workComplete")
    /\ UNCHANGED <<nowHour, authVars, topics, flashcards, activeTopic, settings, isQuizMode,
                   nowMs, deckVars>>

\* The firing that reaches zero in a break or long break: second branch.
BreakComplete ==
    /\ timerState \in {"break", "longBreak"}
    /\ timeLeft <= 1
    /\ timerState' = "work"
    /\ timeLeft' = tickClosure.settings.pomodoroWork * SecondsPerMinute
    /\ tickClosure' = Capture("work", settings, pomodoroStats, currentSession)
    /\ pausedFrom' = NoPause
    /\ phase' = "work"
    /\ lastOp' = Op("breakComplete")
    /\ UNCHANGED <<currentSession, pomodoroStats, nowHour, authVars, appVars, deckVars>>

\* SettingsPanel handleSave -> setSettings: the running interval callback is not
\* re-created (timerState is unchanged).
SavePomodoroSettings ==
    /\ \E s \in PomodoroChoices :
          /\ s # settings
          /\ settings' = s
    /\ pausedFrom' = NoPause
    /\ storage' = Persist(storage, topics, flashcards, activeTopic, settings',
                          pomodoroStats)
    /\ lastOp' = Op("saveSettings")
    /\ UNCHANGED <<phase, topics, flashcards, activeTopic, isQuizMode, nowMs,
                   timerState, timeLeft, currentSession, tickClosure, pomodoroStats,
                   nowHour, authVars, deckVars>>

\* Wall-clock time passes.
ClockStep == 24
AdvanceClock ==
    /\ nowHour + ClockStep <= LastHour
    /\ nowHour' = nowHour + ClockStep
    /\ UNCHANGED <<appVars, pomodoroStats, pomoVars, lastOp, deckVars, authVars>>

\* ------------------------------------------------------------------------
\* App: topics, flashcards, active topic, localStorage
\* ------------------------------------------------------------------------
MaxTopics == 3     \* topics held at once
MaxCards == 3      \* flashcards held at once
MaxMs == 5         \* clock readings of Date.now() in one behaviour
MaxRand == 1       \* distinct suffixes Math.random().toString(36).substr(2, 9) yields

Names == {"Math", "Art"}
Questions == {"q1", "q2"}

\* Text as typed into a form field, and String.prototype.trim on it
TypedNames == Names \cup {"", " ", " Art "}
TypedQuestions == Questions \cup {"", " "}
trim(text) ==
    CASE text = " " -> ""
      [] text = " Art " -> "Art"
      [] OTHER -> text

Range(f) == { f[i] : i \in DOMAIN f }

\* Ids are strings: Date.now().toString(), 13 digits, followed for an imported card
\* by the random suffix.  <<ms, r>> stands for that string; r = 0 is the empty
\* suffix, so <<ms, 0>> is also the id addFlashcard makes.
CardId(ms, r) == <<ms, r>>

\* No topic is ever found by name
HasTopicNamed_Never(ts, name) == FALSE

\* Array.prototype.find on topics: the first match
HasTopicNamed(ts, name) == \E i \in DOMAIN ts : ts[i].name = name
HasTopicId(ts, id) == \E i \in DOMAIN ts : ts[i].id = id
TopicById(ts, id) ==
    ts[CHOOSE i \in DOMAIN ts : ts[i].id = id /\ \A j \in 1..(i - 1) : ts[j].id # id]

IsSubject(name, card) == card.subject = name
CardsOf(cards, name) == SelectSeq(cards, LAMBDA c : IsSubject(name, c))

\* getTopicStats(topicName).cardCount, the count the sidebar shows
cardCount(cards, topicName) == Len(CardsOf(cards, topicName))

\* activeFlashcards: flashcards.filter(card => card.subject === activeTopicData?.name)
ActiveFlashcards(ts, cards, active) ==
    IF HasTopicId(ts, active) THEN CardsOf(cards, TopicById(ts, active).name) ELSE <<>>

\* defaultColors[topics.length % defaultColors.length], as an index
DefaultColorCount == 8
DefaultIconCount == 12

\* addTopic: the topics after it (the new id is Date.now().toString())
addTopic(ts, name, color, icon, ms) ==
    Append(ts, [id |-> ms, name |-> name, color |-> color, icon |-> icon,
                isPublic |-> FALSE])

\* updateTopic, with the updates handleSaveTopicDetails passes
updateTopic(ts, topicId, name) ==
    [i \in DOMAIN ts |-> IF ts[i].id = topicId THEN [ts[i] EXCEPT !.name = name] ELSE ts[i]]

\* updateFlashcard: prev.map(card => card.id === updatedCard.id ? updatedCard : card)
updateFlashcard(cards, updatedCard) ==
    [i \in DOMAIN cards |-> IF cards[i].id = updatedCard.id THEN updatedCard ELSE cards[i]]

\* deleteFlashcard: prev.filter(card => card.id !== cardId)
KeepCard(cardId, card) == card.id # cardId
deleteFlashcard(cards, cardId) == SelectSeq(cards, LAMBDA c : KeepCard(cardId, c))

\* handleSaveTopicDetails, the forEach over the modal's flashcards prop: one
\* updateFlashcard per card whose subject differs from the new name, in order.
RECURSIVE RenameCards(_, _, _)
RenameCards(cards, modalCards, name) ==
    IF modalCards = <<>> THEN cards
    ELSE LET card == Head(modalCards)
             next == IF card.subject # name
                     THEN updateFlashcard(cards, [card EXCEPT !.subject = name])
                     ELSE cards
         IN RenameCards(next, Tail(modalCards), name)

\* What every App handler of SpecApp leaves alone, the save effect that follows
\* it, and the time it takes.
AppStep(op, arg) ==
    /\ nowMs < MaxMs
    /\ nowMs' = nowMs + 1
    /\ storage' = Persist(storage, topics', flashcards', activeTopic', settings,
                          pomodoroStats)
    /\ lastOp' = [op |-> op, arg |-> arg]
    /\ UNCHANGED <<settings, isQuizMode, pomodoroStats, pomoVars, nowHour, authVars, deckVars>>

\* AddTopicModal handleSubmit -> addTopic
AddTopic ==
    \E typed \in TypedNames, color \in {1} :
     LET name == trim(typed) IN
       /\ name # ""
       /\ Len(topics) < MaxTopics
       /\ topics' = addTopic(topics, name, color, 0, nowMs)
       /\ activeTopic' = nowMs
       /\ UNCHANGED flashcards
       /\ AppStep("addTopic", <<name>>)

\* AddFlashcardModal handleSubmit -> addFlashcard
AddFlashcard ==
    \E topic \in TypedNames, question \in TypedQuestions :
     LET subject == trim(topic)
         q == trim(question) IN
       /\ q # "" /\ subject # ""
       /\ Len(flashcards) < MaxCards
       /\ flashcards' = Append(flashcards,
                           [id |-> CardId(nowMs, 0), subject |-> subject, question |-> q,
                            correctCount |-> 0, incorrectCount |-> 0])
       /\ IF ~HasTopicNamed(topics, subject)
          THEN /\ Len(topics) < MaxTopics
               /\ topics' = addTopic(topics, subject, Len(topics) % DefaultColorCount,
                                     Len(topics) % DefaultIconCount, nowMs)
               /\ activeTopic' = nowMs
          ELSE UNCHANGED <<topics, activeTopic>>
       /\ AppStep("addFlashcard", <<subject>>)

\* Sidebar edit button (topics that are not public) or the Edit Topic button of the
\* active topic's empty state -> EditTopicModal handleSaveTopicDetails
CanEdit(t) ==
    \/ ~t.isPublic
    \/ (t.id = activeTopic /\ ActiveFlashcards(topics, flashcards, activeTopic) = <<>>)

SaveTopicDetails ==
    \E i \in DOMAIN topics, topicName \in TypedNames :
       LET topic == TopicById(topics, topics[i].id)
           name == trim(topicName)
       IN /\ CanEdit(topics[i])
          /\ name # ""
          /\ topics' = updateTopic(topics, topic.id, name)
          /\ flashcards' = RenameCards(flashcards, CardsOf(flashcards, topic.name), name)
          /\ UNCHANGED activeTopic
          /\ AppStep("rename", <<topic.id, topic.name, name>>)

\* EditTopicModal handleAddNewCard -> addFlashcard: the subject is the text of the
\* topic name field, saved or not
AddNewCard ==
    \E i \in DOMAIN topics, topicName \in TypedNames, newQuestion \in TypedQuestions :
     LET subject == trim(topicName)
         q == trim(newQuestion) IN
       /\ CanEdit(topics[i])
       /\ q # ""
       /\ Len(flashcards) < MaxCards
       /\ flashcards' = Append(flashcards,
                           [id |-> CardId(nowMs, 0), subject |-> subject, question |-> q,
                            correctCount |-> 0, incorrectCount |-> 0])
       /\ IF ~HasTopicNamed(topics, subject)
          THEN /\ Len(topics) < MaxTopics
               /\ topics' = addTopic(topics, subject, Len(topics) % DefaultColorCount,
                                     Len(topics) % DefaultIconCount, nowMs)
               /\ activeTopic' = nowMs
          ELSE UNCHANGED <<topics, activeTopic>>
       /\ AppStep("addNewCard", <<subject>>)

KeepTopic(topicId, t) == t.id # topicId
NotSubject(name, card) == card.subject # name

\* Sidebar delete button (topics that are not public) -> deleteTopic
deleteTopic ==
    \E i \in DOMAIN topics :
       LET topicId == topics[i].id
           topicToDelete == TopicById(topics, topicId)
           remainingTopics == SelectSeq(topics, LAMBDA t : KeepTopic(topicId, t))
       IN /\ ~topics[i].isPublic
          /\ flashcards' = SelectSeq(flashcards,
                                     LAMBDA c : NotSubject(topicToDelete.name, c))
          /\ topics' = remainingTopics
          /\ activeTopic' = IF activeTopic = topicId
                            THEN (IF Len(remainingTopics) > 0 THEN remainingTopics[1].id
                                  ELSE NULL)
                            ELSE activeTopic
          /\ AppStep("deleteTopic", <<topicId, topicToDelete.name>>)

\* EditTopicModal delete button -> deleteFlashcard
DeleteFlashcard ==
    \E i \in DOMAIN flashcards :
       /\ flashcards' = deleteFlashcard(flashcards, flashcards[i].id)
       /\ UNCHANGED <<topics, activeTopic>>
       /\ AppStep("deleteFlashcard", <<flashcards[i].id>>)

\* Sidebar topic button -> setActiveTopic
TopicChange ==
    \E i \in DOMAIN topics :
       /\ topics[i].id # activeTopic
       /\ activeTopic' = topics[i].id
       /\ UNCHANGED <<topics, flashcards>>
       /\ AppStep("topicChange", <<topics[i].id>>)

\* A share payload: what generateShareUrl encodes (the cards' ids are '' in it)
SharePayloads ==
    { [topic |-> [name |-> n, color |-> 0, icon |-> 0],
       flashcards |-> [i \in 1..k |-> [question |-> "q1", correctCount |-> 0,
                                       incorrectCount |-> 0]]]
      : n \in Names, k \in 1..2 }

\* loadSharedTopic, called by the load effect.  closureTopics is the topics state
\* the function reads: that of the render that created it.  The state setters are
\* functional (prev => ...), so they append to the rehydrated arrays.
loadSharedTopic(closureTopics, ts, cards, active, sharedData, ms, rand) ==
    IF ~HasTopicNamed(closureTopics, sharedData.topic.name)
    THEN [topics |-> Append(ts, [id |-> ms, name |-> sharedData.topic.name,
                                 color |-> sharedData.topic.color,
                                 icon |-> sharedData.topic.icon, isPublic |-> TRUE]),
          activeTopic |-> ms,
          flashcards |-> cards \o
              [i \in DOMAIN sharedData.flashcards |->
                  [id |-> CardId(ms, rand[i]), subject |-> sharedData.topic.name,
                   question |-> sharedData.flashcards[i].question,
                   correctCount |-> sharedData.flashcards[i].correctCount,
                   incorrectCount |-> sharedData.flashcards[i].incorrectCount]]]
    ELSE [topics |-> ts, activeTopic |-> active, flashcards |-> cards]

\* What the load effect rehydrates from localStorage (keys that are absent leave
\* the useState defaults).
Stored(opt, default) == IF opt # <<>> THEN opt[1] ELSE default

\* Page load: the component mounts with the useState defaults, the load effect
\* rehydrates from localStorage and imports the ?topic= payload if there is one,
\* and the save effect writes the resulting state back.  The load effect belongs
\* to the first render, whose topics state is the default [].
Load ==
    \E url \in {<<>>} \cup { <<p>> : p \in SharePayloads } :
      \E rand \in [1..2 -> 0..MaxRand] :
       LET ts == Stored(storage.topics, <<>>)
           cards == Stored(storage.flashcards, <<>>)
           active == Stored(storage.activeTopic, NULL)
           n == IF url # <<>> THEN Len(url[1].flashcards) ELSE 0
           got == IF url # <<>>
                  THEN loadSharedTopic(<<>>, ts, cards, active, url[1], nowMs, rand)
                  ELSE [topics |-> ts, activeTopic |-> active, flashcards |-> cards]
       IN /\ url # <<>> => Len(ts) < MaxTopics /\ Len(cards) + n <= MaxCards
          /\ \A i \in 1..2 : i > n => rand[i] = 0
          /\ topics' = got.topics
          /\ flashcards' = got.flashcards
          /\ activeTopic' = got.activeTopic
          /\ nowMs < MaxMs
          /\ nowMs' = nowMs + 1
          /\ settings' = Stored(storage.settings, DefaultSettings)
          /\ pomodoroStats' = Stored(storage.pomodoroStats, NoStats)
          /\ storage' = Persist(storage, topics', flashcards', activeTopic', settings',
                                pomodoroStats')
          /\ lastOp' = [op |-> IF url # <<>> THEN "import" ELSE "load",
                        arg |-> IF url # <<>> THEN <<url[1].topic.name, n>> ELSE <<>>]
          /\ UNCHANGED <<isQuizMode, pomoVars, nowHour, authVars, deckVars>>

\* btoa throws InvalidCharacterError unless every character of its argument is in
\* the Latin1 range, and JSON.stringify leaves the characters of a string as they
\* are.  The names and questions of the model are ASCII; an icon is an entry of
\* defaultIcons or of the icon pickers (iconOptions), all of them emoji.
IsLatin1Text(text) == text \in Names \cup Questions \cup {""}
IsLatin1Icon(icon) == icon \notin 0..(DefaultIconCount - 1)
btoaAccepts(shareData) ==
    /\ IsLatin1Text(shareData.topic.name)
    /\ IsLatin1Icon(shareData.topic.icon)
    /\ \A i \in DOMAIN shareData.flashcards : IsLatin1Text(shareData.flashcards[i].question)

\* generateShareUrl of the ShareModal: <<shareData>> for the payload put in the
\* URL, <<>> when btoa throws (shareUrl stays '')
generateShareUrl(topic, cards) ==
    LET shareData ==
          [topic |-> [name |-> topic.name, color |-> topic.color, icon |-> topic.icon],
           flashcards |-> [i \in DOMAIN cards |->
                             [question |-> cards[i].question,
                              correctCount |-> cards[i].correctCount,
                              incorrectCount |-> cards[i].incorrectCount]]]
    IN IF btoaAccepts(shareData) THEN <<shareData>> ELSE <<>>

\* The Share button (shown when the active topic has cards) and the Generate
\* Share Link button of the ShareModal
GenerateShareUrl ==
    /\ ActiveFlashcards(topics, flashcards, activeTopic) # <<>>
    /\ lastOp' = [op |-> "share",
                  arg |-> IF generateShareUrl(TopicById(topics, activeTopic),
                                              ActiveFlashcards(topics, flashcards, activeTopic))
                             = <<>>
                          THEN <<"threw">> ELSE <<"url">>]
    /\ UNCHANGED <<topics, flashcards, activeTopic, storage, nowMs, settings, isQuizMode,
                   pomodoroStats, pomoVars, nowHour, authVars, deckVars>>

\* A ?topic= parameter that is not a share payload: atob throws, JSON.parse
\* throws, the decoded object has no topic, or it has a topic and no flashcards.
BadLinks == {"notBase64", "notJSON", "noTopic", "noFlashcards"}

\* loadSharedTopic on a decoded object with a topic and no flashcards: reading
\* sharedData.flashcards.map throws after setTopics and setActiveTopic were called,
\* and the catch of the load effect rolls nothing back.
loadSharedTopicNoCards(closureTopics, ts, cards, active, sharedTopic, ms) ==
    IF ~HasTopicNamed(closureTopics, sharedTopic.name)
    THEN [topics |-> Append(ts, [id |-> ms, name |-> sharedTopic.name,
                                 color |-> sharedTopic.color,
                                 icon |-> sharedTopic.icon, isPublic |-> TRUE]),
          activeTopic |-> ms,
          flashcards |-> cards]
    ELSE [topics |-> ts, activeTopic |-> active, flashcards |-> cards]

\* Page load with a ?topic= parameter that is not a share payload.  atob,
\* JSON.parse and sharedData.topic.name throw before any state is set.
LoadBadLink ==
    \E bad \in BadLinks, name \in Names :
       LET ts == Stored(storage.topics, <<>>)
           cards == Stored(storage.flashcards, <<>>)
           active == Stored(storage.activeTopic, NULL)
           got == IF bad = "noFlashcards"
                  THEN loadSharedTopicNoCards(<<>>, ts, cards, active,
                                              [name |-> name, color |-> 0, icon |-> 0], nowMs)
                  ELSE [topics |-> ts, activeTopic |-> active, flashcards |-> cards]
       IN /\ bad = "noFlashcards" => Len(ts) < MaxTopics
          /\ bad # "noFlashcards" => name = "Math"
          /\ topics' = got.topics
          /\ flashcards' = got.flashcards
          /\ activeTopic' = got.activeTopic
          /\ nowMs < MaxMs
          /\ nowMs' = nowMs + 1
          /\ settings' = Stored(storage.settings, DefaultSettings)
          /\ pomodoroStats' = Stored(storage.pomodoroStats, NoStats)
          /\ storage' = Persist(storage, topics', flashcards', activeTopic', settings',
                                pomodoroStats')
          /\ lastOp' = [op |-> "loadBadLink", arg |-> <<bad>>]
          /\ UNCHANGED <<isQuizMode, pomoVars, nowHour, authVars, deckVars>>

\* ------------------------------------------------------------------------
\* Sign-in: App (src/unnamed/part_001), LoginPage (src/unnamed/part_002),
\* ExistingUserLoginPage (src/unnamed/part_000), ConfirmationPage
\* (src/unnamed/part_003)
\* ------------------------------------------------------------------------
MaxPending == 2    \* pending simulated delays of the sign-in pages

\* What the new-user form is submitted with, and the addresses typed into the
\* existing-user form
Accounts == { [email |-> "john@example.com", username |-> "John"],
              [email |-> "new@example.com", username |-> "New"] }
mockUsers == { [email |-> "john@example.com", username |-> "John"] }
Emails == { a.email : a \in Accounts }

\* The sign-in page that is rendered changes: the new page starts with isLoading
\* false, and the continuations of the pages that unmounted set no state of it.
Unmount(timers) == [i \in DOMAIN timers |-> [timers[i] EXCEPT !.live = FALSE]]
PageAfter(step, liveDone) ==
    IF step # authStep
    THEN /\ isLoading' = FALSE
    ELSE /\ isLoading' = (isLoading /\ ~liveDone)

\* The save effect: if (user) localStorage.setItem('user', ...)
SaveUser == storedUser' = IF user' # <<>> THEN user' ELSE storedUser

AuthFrame(op, arg) ==
    /\ lastOp' = [op |-> op, arg |-> arg]
    /\ UNCHANGED <<appVars, pomodoroStats, pomoVars, nowHour, deckVars>>

\* LoginPage handleSubmit: setIsLoading(true), then the simulated delay
LoginSubmit ==
    \E a \in Accounts :
       /\ authStep = "newUser"
       /\ ~isLoading
       /\ Len(loginTimers) + Len(confirmTimers) < MaxPending
       /\ loginTimers' = Append(loginTimers, [form |-> "newUser", email |-> a.email,
                                              username |-> a.username, live |-> TRUE])
       /\ isLoading' = TRUE
       /\ UNCHANGED <<user, authStep, pendingAuth, confirmTimers, storedUser>>
       /\ AuthFrame("loginSubmit", <<a.email>>)

\* ExistingUserLoginPage handleSubmit
ExistingLoginSubmit ==
    \E email \in Emails :
       /\ authStep = "existingUser"
       /\ ~isLoading
       /\ Len(loginTimers) + Len(confirmTimers) < MaxPending
       /\ loginTimers' = Append(loginTimers, [form |-> "existingUser", email |-> email,
                                              username |-> "", live |-> TRUE])
       /\ isLoading' = TRUE
       /\ UNCHANGED <<user, authStep, pendingAuth, confirmTimers, storedUser>>
       /\ AuthFrame("existingSubmit", <<email>>)

\* handleNewUserLogin / handleExistingUserLogin
handleLogin(email, username) ==
    /\ pendingAuth' = <<[email |-> email, username |-> username]>>
    /\ authStep' = "confirmation"

\* The delay of a login form elapses: onLogin(email, username) for the new-user
\* form; for the existing-user form the lookup in mockUsers, then onLogin or the
\* error message.
LoginTimerFire ==
    /\ loginTimers # <<>>
    /\ LET t == Head(loginTimers)
           found == { u \in mockUsers : u.email = t.email }
       IN /\ IF t.form = "newUser"
             THEN handleLogin(t.email, t.username)
             ELSE IF found # {}
                  THEN handleLogin(t.email, (CHOOSE u \in found : TRUE).username)
                  ELSE UNCHANGED <<pendingAuth, authStep>>
          /\ PageAfter(authStep', t.live)
          /\ loginTimers' = IF authStep' # authStep THEN Unmount(Tail(loginTimers))
                            ELSE Tail(loginTimers)
          /\ confirmTimers' = IF authStep' # authStep THEN Unmount(confirmTimers)
                              ELSE confirmTimers
          /\ UNCHANGED <<user, storedUser>>
          /\ AuthFrame("loginDone", <<t.email>>)

\* onSwitchToExistingUser / onSwitchToNewUser
SwitchForm ==
    /\ authStep \in {"newUser", "existingUser"}
    /\ authStep' = IF authStep = "newUser" THEN "existingUser" ELSE "newUser"
    /\ isLoading' = FALSE
    /\ loginTimers' = Unmount(loginTimers)
    /\ confirmTimers' = Unmount(confirmTimers)
    /\ UNCHANGED <<user, pendingAuth, storedUser>>
    /\ AuthFrame("switchForm", <<>>)

\* ConfirmationPage handleSubmit with a complete code: setIsLoading(true), then
\* the simulated delay; the continuation calls the onConfirm of this render,
\* App's handleConfirmation with this render's pendingAuth.
ConfirmSubmit ==
    /\ authStep = "confirmation"
    /\ pendingAuth # <<>>
    /\ ~isLoading
    /\ Len(loginTimers) + Len(confirmTimers) < MaxPending
    /\ confirmTimers' = Append(confirmTimers, [pendingAuth |-> pendingAuth, live |-> TRUE])
    /\ isLoading' = TRUE
    /\ UNCHANGED <<user, authStep, pendingAuth, loginTimers, storedUser>>
    /\ AuthFrame("confirmSubmit", <<>>)

\* handleConfirmation as created by a render with the given pendingAuth
handleConfirmation(closurePendingAuth) ==
    IF closurePendingAuth # <<>>
    THEN /\ user' = closurePendingAuth
         /\ authStep' = "authenticated"
         /\ pendingAuth' = <<>>
    ELSE UNCHANGED <<user, authStep, pendingAuth>>

\* The delay of the verification elapses: onConfirm()
ConfirmTimerFire ==
    /\ confirmTimers # <<>>
    /\ LET t == Head(confirmTimers)
       IN /\ handleConfirmation(t.pendingAuth)
          /\ PageAfter(authStep', t.live)
          /\ confirmTimers' = IF authStep' # authStep THEN Unmount(Tail(confirmTimers))
                              ELSE Tail(confirmTimers)
          /\ loginTimers' = IF authStep' # authStep THEN Unmount(loginTimers)
                            ELSE loginTimers
          /\ SaveUser
          /\ AuthFrame("confirmDone", <<t.pendingAuth[1].email,
                                        IF t.live THEN "mounted" ELSE "unmounted">>)

\* The Back button of the ConfirmationPage: handleBackToLogin
handleBackToLogin ==
    /\ authStep = "confirmation"
    /\ pendingAuth # <<>>
    /\ authStep' = "newUser"
    /\ pendingAuth' = <<>>
    /\ isLoading' = FALSE
    /\ loginTimers' = Unmount(loginTimers)
    /\ confirmTimers' = Unmount(confirmTimers)
    /\ UNCHANGED <<user, storedUser>>
    /\ AuthFrame("back", <<>>)

\* The main screen is what App renders when no sign-in page applies
MainScreen ==
    \/ authStep = "authenticated"
    \/ (authStep = "confirmation" /\ pendingAuth = <<>>)

\* The sidebar's logout button: handleLogout, then the save effect
handleLogout ==
    /\ MainScreen
    /\ user' = <<>>
    /\ authStep' = "newUser"
    /\ storedUser' = <<>>
    /\ topics' = <<>>
    /\ flashcards' = <<>>
    /\ activeTopic' = NULL
    /\ storage' = Persist([storage EXCEPT !.activeTopic = <<>>], <<>>, <<>>, NULL,
                          settings, pomodoroStats)
    /\ isLoading' = FALSE
    /\ loginTimers' = Unmount(loginTimers)
    /\ confirmTimers' = Unmount(confirmTimers)
    /\ lastOp' = [op |-> "logout", arg |-> <<>>]
    /\ UNCHANGED <<pendingAuth, settings, isQuizMode, nowMs, pomodoroStats, pomoVars,
                   nowHour, deckVars>>

\* The page is reloaded (no share link): pending continuations are gone, the
\* state starts from the useState defaults and the load effect rehydrates it.
Reload ==
    /\ user' = storedUser
    /\ authStep' = IF storedUser # <<>> THEN "authenticated" ELSE "newUser"
    /\ pendingAuth' = <<>>
    /\ isLoading' = FALSE
    /\ loginTimers' = <<>>
    /\ confirmTimers' = <<>>
    /\ topics' = Stored(storage.topics, <<>>)
    /\ flashcards' = Stored(storage.flashcards, <<>>)
    /\ activeTopic' = Stored(storage.activeTopic, NULL)
    /\ settings' = Stored(storage.settings, DefaultSettings)
    /\ pomodoroStats' = Stored(storage.pomodoroStats, NoStats)
    /\ storage' = Persist(storage, topics', flashcards', activeTopic', settings',
                          pomodoroStats')
    /\ lastOp' = [op |-> "reload", arg |-> <<>>]
    /\ lastOp.op # "reload"
    /\ UNCHANGED <<storedUser, isQuizMode, nowMs, pomoVars, nowHour, deckVars>>

\* ------------------------------------------------------------------------
\* Initial values of the parts a specification leaves alone
\* ------------------------------------------------------------------------
\* FlashcardDeck (src/src/components/FlashcardDeck.tsx)
\* ------------------------------------------------------------------------
MaxDeck == 3        \* cards of the deck at mount
MaxJudgments == 1   \* judgments recorded on the cards of one run
MaxTimers == 1      \* pending timeouts of markAnswer and handleSwipe
MaxTally == 9       \* largest tally drawn by SpecAccuracy

NoScore == [correct |-> 0, incorrect |-> 0]
NoCard == [id |-> CardId(0, 0), subject |-> "", question |-> "",
           correctCount |-> 0, incorrectCount |-> 0]

\* const currentCard = displayCards[currentIndex]: undefined past the end
HasCurrentCard == currentIndex < Len(displayCards)
currentCard == IF HasCurrentCard THEN displayCards[currentIndex + 1] ELSE NoCard

\* if (isCompleted || (!currentCard && displayCards.length > 0)): the completion
\* screen is rendered instead of the card and its controls
IsCompletionScreen(completed, index, cards) ==
    completed \/ (index >= Len(cards) /\ Len(cards) > 0)
CompletionScreen == IsCompletionScreen(isCompleted, currentIndex, displayCards)
CardView == mounted /\ ~CompletionScreen /\ HasCurrentCard

\* Rounding down instead of to the nearest integer
Round_Floor(num, den) == num \div den

\* Math.round(num / den) for num >= 0, den > 0: halves round up
Round(num, den) == (2 * num + den) \div (2 * den)

\* accuracy of the completion screen
Accuracy(score) ==
    IF score.correct + score.incorrect > 0
    THEN Round(score.correct * 100, score.correct + score.incorrect)
    ELSE 0

\* [...flashcards].sort(() => Math.random() - 0.5): some permutation
Perms(n) == { f \in [1..n -> 1..n] : \A i, j \in 1..n : i # j => f[i] # f[j] }
Shuffled(cards) == { [i \in DOMAIN cards |-> cards[f[i]]] : f \in Perms(Len(cards)) }
Arrange(cards, shuffle) == IF shuffle THEN Shuffled(cards) ELSE {cards}

\* The deck reset effect, deps [flashcards, settings.shuffleCards].  The flashcards
\* prop is App's activeFlashcards, a new array in every render of App, so the
\* effect runs after every render of App.
ResetEffect(prop) ==
    /\ displayCards' \in Arrange(prop, settings.shuffleCards)
    /\ currentIndex' = 0
    /\ isFlipped' = FALSE
    /\ showAnswer' = FALSE
    /\ isCompleted' = FALSE
    /\ quizScore' = NoScore

\* The keydown handler is the one of the last render in which currentIndex,
\* isFlipped, showAnswer or isQuizMode differed from the render before; the
\* displayCards it reads are that render's.
\* After a handler that changes deck state only (one render):
KbAfterDeck ==
    kbLen' = IF <<currentIndex', isFlipped', showAnswer'>> # <<currentIndex, isFlipped, showAnswer>>
             THEN Len(displayCards')
             ELSE kbLen
\* After a handler that changes App state: a render with the new props and the
\* old deck state, then the reset effect and a render with the reset state.
KbAfterApp(quizToggled) ==
    kbLen' = IF <<currentIndex, isFlipped, showAnswer>> # <<0, FALSE, FALSE>>
             THEN Len(displayCards')
             ELSE IF quizToggled THEN Len(displayCards) ELSE kbLen

\* What every step of the deck leaves alone; the completion screen computes
\* accuracy in the render that follows.
DeckFrameWith(op, arg) ==
    /\ lastOp' = [op |-> op, arg |-> arg]
    /\ accuracy' = IF IsCompletionScreen(isCompleted', currentIndex', displayCards')
                   THEN Accuracy(quizScore')
                   ELSE accuracy
    /\ storage' = Persist(storage, topics, flashcards', activeTopic, settings,
                          pomodoroStats)
    /\ UNCHANGED <<topics, activeTopic, settings, nowMs, pomodoroStats, pomoVars, nowHour, authVars>>

DeckFrame(op) == DeckFrameWith(op, <<>>)

\* A handler that changes deck state only
DeckOnly == UNCHANGED <<flashcards, isQuizMode, mounted>> /\ KbAfterDeck

\* nextCard as created by a render with currentIndex idx and len display cards
nextCard(idx, len) ==
    IF idx < len - 1
    THEN /\ currentIndex' = idx + 1
         /\ isFlipped' = FALSE
         /\ showAnswer' = FALSE
         /\ UNCHANGED isCompleted
    ELSE /\ isCompleted' = TRUE
         /\ UNCHANGED <<currentIndex, isFlipped, showAnswer>>

\* previousCard as created by a render with currentIndex idx
previousCard(idx) ==
    IF idx > 0
    THEN /\ currentIndex' = idx - 1
         /\ isFlipped' = FALSE
         /\ showAnswer' = FALSE
         /\ isCompleted' = FALSE
    ELSE UNCHANGED <<currentIndex, isFlipped, showAnswer, isCompleted>>

\* handleFlip: the Flip button (disabled when showAnswer && !isQuizMode), a tap on
\* the card (handleTap: if (!showAnswer)), the Space key (if (!showAnswer)).  The
\* history records a flip that turns back a card the auto-flip has just revealed.
handleFlip ==
    /\ mounted
    /\ ~showAnswer \/ (CardView /\ isQuizMode)
    /\ isFlipped' = ~isFlipped
    /\ showAnswer' = ~showAnswer
    /\ UNCHANGED <<displayCards, currentIndex, quizScore, isCompleted, advTimers,
                   swipeTimers, judgments>>
    /\ DeckOnly
    /\ DeckFrameWith("flip", IF lastOp.op = "autoFlip" /\ showAnswer
                             THEN <<"autoFlipped">> ELSE <<>>)

\* The Next button (disabled on the last card) and the card's onNextCard (passed
\* when !isQuizMode && showAnswer && isFlipped): nextCard of the current render
NextButton ==
    /\ CardView
    /\ currentIndex # Len(displayCards) - 1 \/ (~isQuizMode /\ showAnswer /\ isFlipped)
    /\ nextCard(currentIndex, Len(displayCards))
    /\ UNCHANGED <<displayCards, quizScore, advTimers, swipeTimers, judgments>>
    /\ DeckOnly
    /\ DeckFrame("nextCard")

\* ArrowRight, or Space when showAnswer && isFlipped: nextCard of the render the
\* keydown handler was registered in
NextKey ==
    /\ mounted
    /\ nextCard(currentIndex, kbLen)
    /\ UNCHANGED <<displayCards, quizScore, advTimers, swipeTimers, judgments>>
    /\ DeckOnly
    /\ DeckFrame("nextCard")

\* The Previous button (disabled on the first card) and ArrowLeft
PreviousCard ==
    /\ mounted
    /\ previousCard(currentIndex)
    /\ UNCHANGED <<displayCards, quizScore, advTimers, swipeTimers, judgments>>
    /\ DeckOnly
    /\ DeckFrame("previousCard")


\* The judgments recorded on the cards
RECURSIVE Judged(_)
Judged(cards) ==
    IF cards = <<>> THEN 0
    ELSE Head(cards).correctCount + Head(cards).incorrectCount + Judged(Tail(cards))

\* markAnswer: the quiz buttons (shown when isQuizMode && showAnswer) and the keys
\* 1 and 2 (if (isQuizMode && showAnswer)).  onUpdateCard changes App's flashcards,
\* so the render that shows the incremented quizScore is followed by the deck
\* reset effect, which sets quizScore to zero again.  The timeout that calls
\* nextCard is never cleared and keeps the nextCard of the calling render.
markAnswerWith(correct) ==
    /\ mounted
    /\ isQuizMode
    /\ showAnswer
    /\ HasCurrentCard
    /\ Judged(flashcards) < MaxJudgments
    /\ Len(advTimers) + Len(swipeTimers) < MaxTimers
    /\ LET updatedCard ==
               [currentCard EXCEPT
                   !.correctCount = @ + (IF correct THEN 1 ELSE 0),
                   !.incorrectCount = @ + (IF correct THEN 0 ELSE 1)]
       IN flashcards' = updateFlashcard(flashcards, updatedCard)
    /\ advTimers' = Append(advTimers, [idx |-> currentIndex, len |-> Len(displayCards),
                                       card |-> currentCard.id])
    /\ judgments' = judgments + 1
    /\ ResetEffect(ActiveFlashcards(topics, flashcards', activeTopic))
    /\ KbAfterApp(FALSE)
    /\ UNCHANGED <<isQuizMode, mounted, swipeTimers>>
    /\ DeckFrame("markAnswer")

\* The quiz buttons Incorrect and Correct
markAnswer == \E correct \in BOOLEAN : markAnswerWith(correct)

\* The timeout of markAnswer fires
AdvanceTimerFire ==
    /\ mounted
    /\ advTimers # <<>>
    /\ nextCard(Head(advTimers).idx, Head(advTimers).len)
    /\ advTimers' = Tail(advTimers)
    /\ UNCHANGED <<displayCards, quizScore, swipeTimers, judgments>>
    /\ DeckOnly
    /\ DeckFrame("nextCard")

\* handleSwipe past the threshold: a timeout that calls previousCard (swipe right)
\* or nextCard (swipe left) of the calling render
handleSwipe ==
    \E dir \in {"left", "right"} :
       /\ CardView
       /\ settings.swipeEnabled
       /\ Len(advTimers) + Len(swipeTimers) < MaxTimers
       /\ swipeTimers' = Append(swipeTimers, [dir |-> dir, idx |-> currentIndex,
                                              len |-> Len(displayCards)])
       /\ UNCHANGED <<displayCards, currentIndex, isFlipped, showAnswer, quizScore,
                      isCompleted, advTimers, judgments>>
       /\ DeckOnly
       /\ DeckFrame("swipe")

\* The timeout of handleSwipe fires
SwipeTimerFire ==
    /\ mounted
    /\ swipeTimers # <<>>
    /\ IF Head(swipeTimers).dir = "left"
       THEN nextCard(Head(swipeTimers).idx, Head(swipeTimers).len)
       ELSE previousCard(Head(swipeTimers).idx)
    /\ swipeTimers' = Tail(swipeTimers)
    /\ UNCHANGED <<displayCards, quizScore, advTimers, judgments>>
    /\ DeckOnly
    /\ DeckFrame(IF Head(swipeTimers).dir = "left" THEN "nextCard" ELSE "previousCard")

\* The timeout of the auto-flip effect fires
AutoFlipFire ==
    /\ mounted
    /\ settings.autoFlip
    /\ ~isFlipped
    /\ ~showAnswer
    /\ HasCurrentCard
    /\ isFlipped' = TRUE
    /\ showAnswer' = TRUE
    /\ UNCHANGED <<displayCards, currentIndex, quizScore, isCompleted, advTimers,
                   swipeTimers, judgments>>
    /\ DeckOnly
    /\ DeckFrameWith("autoFlip", IF lastOp = [op |-> "flip", arg |-> <<"autoFlipped">>]
                                 THEN <<"again">> ELSE <<>>)

\* resetQuiz: the Reset button, the R key, Study Again (restartDeck)
resetQuiz ==
    /\ mounted
    /\ currentIndex' = 0
    /\ isFlipped' = FALSE
    /\ showAnswer' = FALSE
    /\ quizScore' = NoScore
    /\ isCompleted' = FALSE
    /\ judgments' = 0
    /\ UNCHANGED <<displayCards, advTimers, swipeTimers>>
    /\ DeckOnly
    /\ DeckFrame("resetQuiz")

\* document.activeElement as isTypingInInput reads it: the tag name, whether
\* getAttribute('contenteditable') === 'true', and whether closest() finds a
\* dialog, .modal or [data-modal] ancestor.  The elements the application can
\* give the focus to, one of each kind:
Element(tag, editable, modal) ==
    [tagName |-> tag, contenteditable |-> editable, inModal |-> modal]
Elements ==
    { Element("input", FALSE, FALSE),
      Element("textarea", FALSE, TRUE),
      Element("select", FALSE, FALSE),
      Element("div", TRUE, FALSE),
      Element("button", FALSE, TRUE) }

\* Only the closing test of isTypingInInput: an input or textarea in a modal
isTypingInInput_ModalOnly(activeElement) ==
    activeElement.inModal /\ activeElement.tagName \in {"input", "textarea"}

\* isTypingInInput
isTypingInInput(activeElement) ==
    IF activeElement.tagName \in {"input", "textarea", "select"} THEN TRUE
    ELSE IF activeElement.contenteditable THEN TRUE
    ELSE activeElement.inModal /\ activeElement.tagName \in {"input", "textarea"}

Keys == {" ", "ArrowRight", "ArrowLeft", "1", "2", "r"}

\* if (isTypingInInput()) return;
KeySuppressed ==
    /\ UNCHANGED <<displayCards, currentIndex, isFlipped, showAnswer, quizScore,
                   isCompleted, advTimers, swipeTimers, judgments>>
    /\ DeckOnly
    /\ DeckFrame("keySuppressed")

\* switch (event.key)
Shortcut(key) ==
    CASE key = " " -> IF ~showAnswer THEN handleFlip ELSE isFlipped /\ NextKey
      [] key = "ArrowRight" -> NextKey
      [] key = "ArrowLeft" -> PreviousCard
      [] key = "1" -> markAnswerWith(FALSE)
      [] key = "2" -> markAnswerWith(TRUE)
      [] key = "r" -> resetQuiz

\* handleKeyPress for a keydown event with the focus on activeElement: the early
\* return comes before event.key is read
KeyDown(activeElement) ==
    /\ mounted
    /\ IF isTypingInInput(activeElement)
       THEN KeySuppressed
       ELSE \E key \in Keys : Shortcut(key)

\* The keydown listener of the window
handleKeyPress == \E activeElement \in Elements : KeyDown(activeElement)

\* Shuffle & Restart on the completion screen; the history records whether the
\* handler drew a new order (the sort call).
ShuffleRestart ==
    /\ mounted
    /\ CompletionScreen
    /\ IF settings.shuffleCards
       THEN displayCards' \in Shuffled(ActiveFlashcards(topics, flashcards, activeTopic))
       ELSE UNCHANGED displayCards
    /\ currentIndex' = 0
    /\ isFlipped' = FALSE
    /\ showAnswer' = FALSE
    /\ quizScore' = NoScore
    /\ isCompleted' = FALSE
    /\ judgments' = 0
    /\ UNCHANGED <<advTimers, swipeTimers>>
    /\ DeckOnly
    /\ DeckFrameWith("shuffleRestart", IF settings.shuffleCards THEN <<"sort">> ELSE <<>>)

\* Any state change of App that leaves the cards alone (dark mode, a modal opened
\* or closed, the sidebar toggled, Pomodoro stats): App renders, the deck gets a
\* new flashcards array and its reset effect runs.
AppRerender ==
    /\ mounted
    /\ ResetEffect(ActiveFlashcards(topics, flashcards, activeTopic))
    /\ KbAfterApp(FALSE)
    /\ judgments' = 0
    /\ UNCHANGED <<flashcards, isQuizMode, mounted, advTimers, swipeTimers>>
    /\ DeckFrame("appRerender")

\* The quiz mode switch: setIsQuizMode(!isQuizMode)
ToggleQuizMode ==
    /\ mounted
    /\ isQuizMode' = ~isQuizMode
    /\ ResetEffect(ActiveFlashcards(topics, flashcards, activeTopic))
    /\ KbAfterApp(TRUE)
    /\ judgments' = 0
    /\ UNCHANGED <<flashcards, mounted, advTimers, swipeTimers>>
    /\ DeckFrame("toggleQuizMode")

\* App renders the deck with no regard to the cards it has
DeckRendered_Always(active, cards) == TRUE

\* App renders <FlashcardDeck> only when activeTopic && activeFlashcards.length > 0;
\* otherwise it renders its own empty-state panel and the deck is unmounted.
DeckRendered(active, cards) == active # NULL /\ cards # <<>>

\* onDeleteCard(currentCard.id) -> deleteFlashcard.  Deleting the last card
\* unmounts the deck; its timeouts are not cleared by the unmount.
DeckDeleteCard ==
    /\ CardView
    /\ flashcards' = deleteFlashcard(flashcards, currentCard.id)
    /\ judgments' = 0
    /\ IF DeckRendered(activeTopic, ActiveFlashcards(topics, flashcards', activeTopic))
       THEN /\ ResetEffect(ActiveFlashcards(topics, flashcards', activeTopic))
            /\ KbAfterApp(FALSE)
            /\ UNCHANGED mounted
       ELSE /\ mounted' = FALSE
            /\ displayCards' = <<>>
            /\ currentIndex' = 0
            /\ isFlipped' = FALSE
            /\ showAnswer' = FALSE
            /\ quizScore' = NoScore
            /\ isCompleted' = FALSE
            /\ kbLen' = 0
    /\ UNCHANGED <<isQuizMode, advTimers, swipeTimers>>
    /\ DeckFrame("deleteCard")

\* What a step leaves alone when no deck is mounted
NoDeck ==
    UNCHANGED <<flashcards, isQuizMode, mounted, displayCards, currentIndex, isFlipped,
                showAnswer, quizScore, isCompleted, kbLen, judgments>>

\* A timeout of a deck that has been unmounted fires: its setState calls reach
\* no mounted component.
UnmountedTimerFire ==
    /\ ~mounted
    /\ \/ advTimers # <<>> /\ advTimers' = Tail(advTimers) /\ UNCHANGED swipeTimers
       \/ swipeTimers # <<>> /\ swipeTimers' = Tail(swipeTimers) /\ UNCHANGED advTimers
    /\ NoDeck
    /\ DeckFrame("timerUnmounted")

\* A key is pressed while no deck is mounted: the keydown listener was removed by
\* the cleanup of the keyboard effect.
UnmountedKey ==
    /\ ~mounted
    /\ lastOp.op # "keyUnmounted"
    /\ UNCHANGED <<advTimers, swipeTimers>>
    /\ NoDeck
    /\ DeckFrame("keyUnmounted")

\* The completion screen renders: accuracy of the tally (SpecAccuracy)
CompletionRender ==
    /\ mounted
    /\ isCompleted
    /\ lastOp = Op("init")
    /\ accuracy' = Accuracy(quizScore)
    /\ lastOp' = Op("accuracy")
    /\ UNCHANGED <<appVars, pomodoroStats, pomoVars, nowHour, authVars, mounted, displayCards,
                   currentIndex, isFlipped, showAnswer, quizScore, isCompleted, kbLen,
                   advTimers, swipeTimers, judgments>>

\* ------------------------------------------------------------------------
\* Initial values of the components' state
\* ------------------------------------------------------------------------
\* A signed-in user on the main screen, no sign-in delay pending
SignedInUser == [email |-> "john@example.com", username |-> "John"]
SignedIn ==
    /\ user = <<SignedInUser>>
    /\ authStep = "authenticated"
    /\ pendingAuth = <<>>
    /\ isLoading = FALSE
    /\ loginTimers = <<>>
    /\ confirmTimers = <<>>
    /\ storedUser = <<SignedInUser>>

AppIdle ==
    /\ topics = <<>>
    /\ flashcards = <<>>
    /\ activeTopic = NULL
    /\ isQuizMode = FALSE
    /\ nowMs = 0

PomoIdle ==
    /\ timerState = "idle"
    /\ timeLeft = settings.pomodoroWork * SecondsPerMinute
    /\ currentSession = 1
    /\ tickClosure = NoClosure
    /\ pausedFrom = NoPause
    /\ phase = "none"

DeckIdle ==
    /\ mounted = FALSE
    /\ displayCards = <<>>
    /\ currentIndex = 0
    /\ isFlipped = FALSE
    /\ showAnswer = FALSE
    /\ quizScore = [correct |-> 0, incorrect |-> 0]
    /\ isCompleted = FALSE
    /\ kbLen = 0
    /\ advTimers = <<>>
    /\ swipeTimers = <<>>
    /\ judgments = 0
    /\ accuracy = 0

\* ------------------------------------------------------------------------
\* SpecPomo: the Pomodoro timer, mounted with the App's default stats
\* ------------------------------------------------------------------------
InitPomo ==
    /\ SignedIn
    /\ AppIdle
    /\ settings \in PomodoroChoices
    /\ pomodoroStats = NoStats
    /\ storage = Persist(EmptyStorage, topics, flashcards, activeTopic, settings,
                         pomodoroStats)
    /\ PomoIdle
    /\ nowHour = DayStart(1) + ClockStep
    /\ lastOp = Op("init")
    /\ DeckIdle

NextPomo ==
    \/ startTimer
    \/ pauseTimer
    \/ resetTimer
    \/ Tick
    \/ (pomodoroStats.completedSessions < MaxSessions /\ WorkComplete)
    \/ BreakComplete
    \/ SavePomodoroSettings
    \/ AdvanceClock

SpecPomo == InitPomo /\ [][NextPomo]_vars

\* ------------------------------------------------------------------------
\* SpecPomoRun: the timer with nobody pausing or resetting it.  The interval of
\* the countdown effect fires every second while the timer runs, so its
\* callback is weakly fair.
\* ------------------------------------------------------------------------
NextPomoRun ==
    \/ (timerState = "idle" /\ startTimer)
    \/ Tick
    \/ (pomodoroStats.completedSessions < MaxSessions /\ WorkComplete)
    \/ BreakComplete
    \/ SavePomodoroSettings
    \/ AdvanceClock

SpecPomoRun ==
    /\ InitPomo
    /\ [][NextPomoRun]_vars
    /\ WF_vars(Tick)
    /\ WF_vars(pomodoroStats.completedSessions < MaxSessions /\ WorkComplete)
    /\ WF_vars(BreakComplete)

\* ------------------------------------------------------------------------
\* SpecStreak: a work countdown at its last second, for every clock reading and
\* every recorded last session; the one step is the completion.
\* ------------------------------------------------------------------------
RecordedStats(now) ==
    {NoStats} \cup
    { [completedSessions |-> k, totalFocusTime |-> k * DefaultSettings.pomodoroWork,
       streakDays |-> k, lastSessionDate |-> <<t>>] : k \in 1..MaxStreak, t \in 0..now }

InitStreak ==
    /\ SignedIn
    /\ AppIdle
    /\ settings = DefaultSettings
    /\ nowHour \in DayStart(1)..LastHour
    /\ pomodoroStats \in RecordedStats(nowHour)
    /\ storage = Persist(EmptyStorage, topics, flashcards, activeTopic, settings,
                         pomodoroStats)
    /\ timerState = "work"
    /\ timeLeft = 1
    /\ currentSession = 1
    /\ tickClosure = Capture("work", settings, pomodoroStats, currentSession)
    /\ pausedFrom = NoPause
    /\ phase = "work"
    /\ lastOp = Op("init")
    /\ DeckIdle

NextStreak == WorkComplete

SpecStreak == InitStreak /\ [][NextStreak]_vars

\* ------------------------------------------------------------------------
\* SpecApp: the App's topics and flashcards, from a first visit with empty
\* localStorage
\* ------------------------------------------------------------------------
InitApp ==
    /\ SignedIn
    /\ topics = <<>>
    /\ flashcards = <<>>
    /\ activeTopic = NULL
    /\ isQuizMode = FALSE
    /\ settings = DefaultSettings
    /\ pomodoroStats = NoStats
    /\ storage = Persist(EmptyStorage, <<>>, <<>>, NULL, DefaultSettings, NoStats)
    /\ nowMs = 1
    /\ PomoIdle
    /\ nowHour = DayStart(1)
    /\ lastOp = Op("init")
    /\ DeckIdle

NextApp ==
    \/ AddTopic
    \/ AddFlashcard
    \/ AddNewCard
    \/ SaveTopicDetails
    \/ deleteTopic
    \/ DeleteFlashcard
    \/ TopicChange
    \/ GenerateShareUrl
    \/ Load
    \/ LoadBadLink

SpecApp == InitApp /\ [][NextApp]_vars

\* ------------------------------------------------------------------------
\* SpecAuth: sign-in, from a first visit (nothing stored, no user)
\* ------------------------------------------------------------------------
InitAuth ==
    /\ user = <<>>
    /\ authStep = "newUser"
    /\ pendingAuth = <<>>
    /\ isLoading = FALSE
    /\ loginTimers = <<>>
    /\ confirmTimers = <<>>
    /\ storedUser = <<>>
    /\ AppIdle
    /\ settings = DefaultSettings
    /\ pomodoroStats = NoStats
    /\ storage = Persist(EmptyStorage, topics, flashcards, activeTopic, settings,
                         pomodoroStats)
    /\ PomoIdle
    /\ nowHour = DayStart(1)
    /\ DeckIdle
    /\ lastOp = Op("init")

NextAuth ==
    \/ LoginSubmit
    \/ ExistingLoginSubmit
    \/ LoginTimerFire
    \/ SwitchForm
    \/ ConfirmSubmit
    \/ ConfirmTimerFire
    \/ handleBackToLogin
    \/ handleLogout
    \/ Reload

SpecAuth == InitAuth /\ [][NextAuth]_vars

\* ------------------------------------------------------------------------
\* SpecDeck: a deck of 1..MaxDeck cards of one topic, after its mount (first
\* render with displayCards = [], the effects, the render with the cards)
\* ------------------------------------------------------------------------
DeckCards(n) ==
    [k \in 1..n |-> [id |-> CardId(k, 0), subject |-> "Math", question |-> "q1",
                     correctCount |-> 0, incorrectCount |-> 0]]

DeckSettings ==
    { [DefaultSettings EXCEPT !.autoFlip = a, !.shuffleCards = s] : a, s \in BOOLEAN }

InitDeck ==
    /\ SignedIn
    /\ topics = addTopic(<<>>, "Math", 0, 0, 1)
    /\ \E n \in 1..MaxDeck : flashcards = DeckCards(n)
    /\ activeTopic = 1
    /\ isQuizMode \in BOOLEAN
    /\ settings \in DeckSettings
    /\ pomodoroStats = NoStats
    /\ storage = Persist(EmptyStorage, topics, flashcards, activeTopic, settings, NoStats)
    /\ nowMs = MaxDeck + 1
    /\ PomoIdle
    /\ nowHour = DayStart(1)
    /\ lastOp = Op("init")
    /\ mounted = TRUE
    /\ displayCards \in Arrange(flashcards, settings.shuffleCards)
    /\ currentIndex = 0
    /\ isFlipped = FALSE
    /\ showAnswer = FALSE
    /\ quizScore = NoScore
    /\ isCompleted = FALSE
    /\ kbLen = 0
    /\ advTimers = <<>>
    /\ swipeTimers = <<>>
    /\ judgments = 0
    /\ accuracy = 0

NextDeck ==
    \/ handleFlip
    \/ NextButton
    \/ handleKeyPress
    \/ PreviousCard
    \/ markAnswer
    \/ AdvanceTimerFire
    \/ handleSwipe
    \/ SwipeTimerFire
    \/ AutoFlipFire
    \/ resetQuiz
    \/ ShuffleRestart
    \/ AppRerender
    \/ ToggleQuizMode
    \/ DeckDeleteCard
    \/ UnmountedTimerFire
    \/ UnmountedKey

SpecDeck == InitDeck /\ [][NextDeck]_vars

\* ------------------------------------------------------------------------
\* SpecAccuracy: the accuracy expression of the completion screen, applied to
\* every tally up to MaxTally
\* ------------------------------------------------------------------------
InitAccuracy ==
    /\ SignedIn
    /\ AppIdle
    /\ settings = DefaultSettings
    /\ pomodoroStats = NoStats
    /\ storage = Persist(EmptyStorage, topics, flashcards, activeTopic, settings,
                         pomodoroStats)
    /\ PomoIdle
    /\ nowHour = DayStart(1)
    /\ lastOp = Op("init")
    /\ mounted = TRUE
    /\ displayCards = <<>>
    /\ currentIndex = 0
    /\ isFlipped = FALSE
    /\ showAnswer = FALSE
    /\ quizScore \in [correct : 0..MaxTally, incorrect : 0..MaxTally]
    /\ isCompleted = TRUE
    /\ kbLen = 0
    /\ advTimers = <<>>
    /\ swipeTimers = <<>>
    /\ judgments = quizScore.correct + quizScore.incorrect
    /\ accuracy = 0

NextAccuracy == CompletionRender

SpecAccuracy == InitAccuracy /\ [][NextAccuracy]_vars

\* ------------------------------------------------------------------------
\* Claims about the study session
\* ------------------------------------------------------------------------
Tally(score) == score.correct + score.incorrect

\* C1: for every non-empty deck of n cards, advancing (nextCard) while on the last
\* card (index n-1) puts the session in the completed state without changing the
\* index; advancing on any earlier card moves to index+1 and never sets completed;
\* advancing again while already completed leaves the session completed.
C1_NextCardCompletesOnLastCard ==
    [][ lastOp'.op = "nextCard" =>
           IF isCompleted
           THEN isCompleted'
           ELSE IF currentIndex = Len(displayCards) - 1
                THEN isCompleted' /\ currentIndex' = currentIndex
                ELSE currentIndex' = currentIndex + 1 /\ ~isCompleted' ]_vars

\* C2: when the session is completed, the accuracy it exposes equals
\* correct/(correct+incorrect) of the quiz tally as a percentage rounded to the
\* nearest integer, equals 0 when correct and incorrect are both zero, and is
\* always between 0 and 100.
C2_AccuracyIsRoundedRatio ==
    (isCompleted /\ lastOp.op = "accuracy") =>
        LET c == quizScore.correct
            t == Tally(quizScore)
            d == accuracy * t - 100 * c
        IN /\ t = 0 => accuracy = 0
           /\ t > 0 => (2 * d <= t /\ 0 - 2 * d <= t)
           /\ accuracy \in 0..100

\* The completion screen has shown the accuracy of 2 correct, 1 incorrect: 67
C2_Witness ==
    /\ isCompleted
    /\ lastOp.op = "accuracy"
    /\ quizScore = [correct |-> 2, incorrect |-> 1]
    /\ accuracy = 67

\* C3: in quiz mode, each judgment (markAnswer) increases exactly one of the
\* session's running tallies by 1 and the judged card's matching counter by 1, so
\* that until the next reset or restart the running tally correct+incorrect equals
\* the number of judgments made in the session.
C3_TallyCountsJudgments ==
    [][ lastOp'.op = "markAnswer" =>
           /\ Tally(quizScore') = Tally(quizScore) + 1
           /\ Judged(flashcards') = Judged(flashcards) + 1
           /\ Tally(quizScore') = judgments' ]_vars

\* C13: after the session has navigated away from a card (next, previous, reset,
\* restart, a change of deck), no timer callback scheduled while the earlier card
\* was current (the quiz auto-advance delay, the auto-flip delay) fires afterwards
\* and changes the index, the flip/reveal state or the completed flag seen for the
\* new card.  The auto-flip timeout is cleared by its effect; the step below is
\* the auto-advance timeout firing while another card is current.
C13_NoStaleTimerFires ==
    [][ (/\ advTimers # <<>>
         /\ advTimers' = Tail(advTimers)
         /\ lastOp'.op = "nextCard"
         /\ currentCard.id # Head(advTimers).card) =>
           UNCHANGED <<currentIndex, isFlipped, showAnswer, isCompleted>> ]_vars

\* An auto-advance timeout is pending while another card than the judged one is
\* current.
C13_Witness ==
    /\ mounted
    /\ advTimers # <<>>
    /\ HasCurrentCard
    /\ currentCard.id # Head(advTimers).card

\* C14: in quiz mode, a revealed card cannot be advanced past by any input
\* (space, ArrowRight, Next button, swipe, card click) until a correct/incorrect
\* judgment has been recorded for it.  A judgment hides the answer again, so a
\* revealed card is one not judged since it was revealed; the step below is a
\* key or button input (no timeout fires in it).
C14_QuizNeedsJudgment ==
    [][ (/\ mounted
         /\ isQuizMode
         /\ showAnswer
         /\ HasCurrentCard
         /\ lastOp'.op = "nextCard"
         /\ advTimers' = advTimers
         /\ swipeTimers' = swipeTimers) =>
           UNCHANGED <<currentIndex, isCompleted>> ]_vars

\* In quiz mode a card is revealed and not the last one.
C14_Witness ==
    /\ mounted
    /\ isQuizMode
    /\ showAnswer
    /\ ~isCompleted
    /\ currentIndex < Len(displayCards) - 1

\* C15: restarting a study session (Study Again, Shuffle & Restart, the R key)
\* re-shuffles the deck ordering when the shuffle setting is active, and when it is
\* not active the ordering after the restart is exactly the original order of the
\* supplied flashcards; in both cases the index returns to 0 and the flip state,
\* the completed flag and the quiz tally are cleared.
C15_RestartReshuffles ==
    [][ lastOp'.op \in {"resetQuiz", "shuffleRestart"} =>
           LET supplied == ActiveFlashcards(topics, flashcards, activeTopic)
           IN /\ settings.shuffleCards =>
                    (lastOp'.arg = <<"sort">> /\ displayCards' \in Shuffled(supplied))
              /\ ~settings.shuffleCards => displayCards' = supplied
              /\ currentIndex' = 0
              /\ ~isFlipped'
              /\ ~showAnswer'
              /\ ~isCompleted'
              /\ quizScore' = NoScore ]_vars

\* A completed session has been restarted with Study Again or R while the
\* shuffle setting is active.
C15_Witness ==
    /\ lastOp.op = "resetQuiz"
    /\ settings.shuffleCards
    /\ Len(displayCards) > 1

\* C16: the completed state is terminal: once completed, the session stays
\* completed under every input (including previous-card navigation by key or
\* swipe) until it is reset or restarted or the deck itself changes.  Every step
\* that runs the deck reset effect is counted as a change of the deck.
C16_CompletedIsTerminal ==
    [][ (/\ isCompleted
         /\ lastOp'.op \notin {"resetQuiz", "shuffleRestart", "appRerender",
                               "toggleQuizMode", "deleteCard", "markAnswer"}) =>
           isCompleted' ]_vars

\* The session is completed on the last card of a deck of several cards.
C16_Witness ==
    /\ mounted
    /\ isCompleted
    /\ currentIndex = Len(displayCards) - 1
    /\ currentIndex > 0

\* C17: an empty deck never enters the study session.  Whenever the active topic
\* has no cards, no deck is mounted: the completed flag is clear, the index is 0,
\* no card is displayed and the completion screen is not shown (App shows its
\* empty-state panel), whatever keys and timeouts arrive.
C17_EmptyDeckStaysOut ==
    ActiveFlashcards(topics, flashcards, activeTopic) = <<>> =>
       /\ ~mounted
       /\ ~isCompleted
       /\ currentIndex = 0
       /\ displayCards = <<>>
       /\ ~CompletionScreen

\* The last card was deleted while a timeout was pending, and the timeout has
\* fired on the empty deck.
C17_Witness ==
    /\ ActiveFlashcards(topics, flashcards, activeTopic) = <<>>
    /\ lastOp.op = "timerUnmounted"

\* C18: while the focus is in a text input (an input, textarea, select or
\* contenteditable element), a keydown of any deck shortcut (space, arrows, 1,
\* 2, r) leaves the index, the flip and reveal state, the quiz tally, the
\* completed flag and all cards unchanged.
TextInputs ==
    { el \in Elements : el.tagName \in {"input", "textarea", "select"} \/ el.contenteditable }

C18_TypingSuppressesShortcuts ==
    [][ (\E el \in TextInputs : KeyDown(el)) =>
           UNCHANGED <<currentIndex, isFlipped, showAnswer, quizScore, isCompleted,
                       flashcards, displayCards>> ]_vars

\* A key was pressed in a text input while an answer was revealed in quiz mode
\* on a card that is not the last: every shortcut would have acted.
C18_Witness ==
    /\ lastOp.op = "keySuppressed"
    /\ mounted
    /\ isQuizMode
    /\ showAnswer
    /\ isFlipped
    /\ currentIndex = 1
    /\ Len(displayCards) = 3

\* C26: with auto-flip enabled the auto-reveal timer fires at most once per
\* visit to a card: after it has revealed the answer of a card and the card was
\* flipped back to the question, it does not fire again for that card.
C26_AutoFlipOncePerCard ==
    [][ (/\ lastOp = [op |-> "flip", arg |-> <<"autoFlipped">>]
         /\ currentCard.id = currentCard'.id) =>
           lastOp'.op # "autoFlip" ]_vars

\* The auto-flip has revealed a card that it had revealed before and that was
\* flipped back to its question.
C26_Witness ==
    /\ lastOp = [op |-> "autoFlip", arg |-> <<"again">>]
    /\ settings.autoFlip
    /\ isQuizMode
    /\ isFlipped
    /\ showAnswer
    /\ currentIndex = 0

\* C28: a state change of App that alters neither the active topic's cards nor the
\* shuffle setting (dark mode, the sidebar, a modal, a Pomodoro stats update)
\* leaves the session's deck order, current index, flip and reveal state,
\* completed flag and quiz tally unchanged.
C28_AppRerenderKeepsSession ==
    [][ lastOp'.op = "appRerender" =>
          UNCHANGED <<displayCards, currentIndex, isFlipped, showAnswer,
                      isCompleted, quizScore>> ]_vars

\* App has rendered again in the middle of a session
C28_Witness ==
    /\ lastOp.op = "appRerender"
    /\ mounted
    /\ Len(displayCards) > 1
    /\ currentIndex = 0
    /\ quizScore = NoScore

\* C29: whenever the displayed deck is non-empty the current index is at least 0
\* and less than the number of displayed cards, so a current card exists.
C29_IndexInRange ==
    (mounted /\ displayCards # <<>>) => currentIndex \in 0..(Len(displayCards) - 1)

\* The last card of a deck of several cards is current
C29_Witness ==
    /\ mounted
    /\ Len(displayCards) > 1
    /\ currentIndex = Len(displayCards) - 1

\* ------------------------------------------------------------------------
\* Claims about the Pomodoro timer
\* ------------------------------------------------------------------------
DayOfLastSession(stats) ==
    IF stats.lastSessionDate # <<>> THEN ToDateString(stats.lastSessionDate[1]) ELSE NoDay

\* C8: on each work-session completion the day streak becomes the previous
\* streak + 1 when the previous recorded session date is exactly one calendar day
\* before today, stays unchanged when it is today, and becomes 1 in every other
\* case (no previous session, or a gap of two or more days).
C8_StreakByCalendarDay ==
    [][ lastOp' = Op("workComplete") =>
          LET last == DayOfLastSession(pomodoroStats)
              today == ToDateString(nowHour)
          IN pomodoroStats'.streakDays =
                IF last = today THEN pomodoroStats.streakDays
                ELSE IF last = today - 1 THEN pomodoroStats.streakDays + 1
                ELSE 1 ]_vars

\* C9: pausing from any running state and then starting again returns the timer
\* to the state it was paused from, with the remaining time unchanged.
C9_ResumeReturnsToPausedState ==
    lastOp.op = "resume" =>
        /\ timerState = pausedFrom.state
        /\ timeLeft = pausedFrom.timeLeft

\* A resume has happened after a pause in a long break.
C9_Witness ==
    /\ lastOp.op = "resume"
    /\ pausedFrom.state = "longBreak"

\* C10: when a work countdown completes, the next state is longBreak iff the
\* completed session count is a multiple of the configured sessionsUntilLongBreak
\* and break otherwise, and the remaining time is the duration of the chosen break
\* type.  The count is read as the work sessions completed since the timer was
\* started from idle (currentSession - 1 after the completion), the reading under
\* which the code comes closest to the claim.
C10_BreakChoice ==
    lastOp.op = "workComplete" =>
        LET long == (currentSession - 1) % settings.sessionsUntilLongBreak = 0
        IN /\ timerState = (IF long THEN "longBreak" ELSE "break")
           /\ timeLeft = (IF long THEN settings.longBreak ELSE settings.pomodoroBreak)
                            * SecondsPerMinute

\* A work completion has chosen a long break.
C10_Witness ==
    /\ lastOp.op = "workComplete"
    /\ timerState = "longBreak"

\* C11: every work phase that counts down to zero, whether or not it was paused
\* and resumed along the way, increases completedSessions by exactly 1 and
\* totalFocusTime by the configured work duration in minutes, and records today as
\* the last session date.  The configured duration is read as the one in the
\* settings now or the one the running countdown was set going with.
C11_WorkPhaseCounts ==
    [][ (/\ phase = "work"
         /\ timeLeft <= 1
         /\ lastOp'.op \in {"workComplete", "breakComplete"}) =>
           /\ pomodoroStats'.completedSessions = pomodoroStats.completedSessions + 1
           /\ pomodoroStats'.totalFocusTime - pomodoroStats.totalFocusTime
                 \in {settings.pomodoroWork, tickClosure.settings.pomodoroWork}
           /\ pomodoroStats'.lastSessionDate = <<nowHour>> ]_vars

\* A work phase has counted down to zero and was counted.
C11_Witness ==
    /\ lastOp.op = "workComplete"
    /\ pomodoroStats.completedSessions = 1
    /\ pomodoroStats.lastSessionDate = <<nowHour>>

\* C12: the Pomodoro stats are changed only by the completion of a work
\* countdown: start, pause, resume, reset, a tick that does not reach zero and the
\* completion of a break or long break leave all four fields unchanged.
C12_StatsOnlyByWorkCompletion ==
    [][ lastOp'.op \in {"start", "pause", "resume", "reset", "tick", "breakComplete"} =>
           pomodoroStats' = pomodoroStats ]_vars

\* The timer has been reset with a counted work session in the stats.
C12_Witness ==
    /\ lastOp.op = "reset"
    /\ pomodoroStats.completedSessions = 1
    /\ pomodoroStats.streakDays = 1

Retitled(cards, name) == { [c EXCEPT !.subject = name] : c \in Range(cards) }

NoOrphan(ts, cards) == \A i \in DOMAIN cards : HasTopicNamed(ts, cards[i].subject)

\* C4: renaming a topic (saving a changed name in the edit-topic modal) rewrites
\* subject to the new name on every card whose subject was the old name, so that
\* afterwards the set of cards under the renamed topic is exactly the set that was
\* under the old name, and no card is left with a subject that matches no topic.
C4_RenameMovesCards ==
    [][ (lastOp'.op = "rename" /\ lastOp'.arg[2] # lastOp'.arg[3]) =>
           LET old == lastOp'.arg[2]
               new == lastOp'.arg[3]
           IN /\ Range(CardsOf(flashcards', new)) = Retitled(CardsOf(flashcards, old), new)
              /\ CardsOf(flashcards', old) = <<>>
              /\ NoOrphan(topics', flashcards') ]_vars

\* A topic that has a card has been renamed.
C4_Witness ==
    /\ lastOp.op = "rename"
    /\ lastOp.arg[2] # lastOp.arg[3]
    /\ CardsOf(flashcards, lastOp.arg[3]) # <<>>

ActiveTopicExists(ts, active) == active = NULL \/ HasTopicId(ts, active)

\* C5: deleting a topic removes that topic and every card whose subject equals its
\* name, leaves all other topics and cards unchanged, and, if the deleted topic was
\* the active one, sets the active topic to another existing topic or to none; the
\* active topic never refers to a topic that no longer exists.
C5_DeleteTopic ==
    [][ /\ lastOp'.op = "deleteTopic" =>
              LET topicId == lastOp'.arg[1]
                  name == lastOp'.arg[2]
              IN /\ topics' = SelectSeq(topics, LAMBDA t : t.id # topicId)
                 /\ flashcards' = SelectSeq(flashcards, LAMBDA c : c.subject # name)
                 /\ activeTopic # topicId => activeTopic' = activeTopic
                 /\ activeTopic = topicId => activeTopic' # topicId
        /\ ActiveTopicExists(topics', activeTopic') ]_vars

\* The active topic has been deleted while another topic existed.
C5_Witness ==
    /\ lastOp.op = "deleteTopic"
    /\ activeTopic # NULL
    /\ HasTopicId(topics, activeTopic)

\* C6: importing a share payload never reuses an existing identifier: the imported
\* topic receives an id different from every existing topic id, and every imported
\* card receives an id different from every existing card id and from the ids of
\* the other cards imported with it.
C6_ImportIdsFresh ==
    lastOp.op = "import" =>
        LET n == lastOp.arg[2]
            T == Len(topics)
            F == Len(flashcards)
        IN /\ \A j \in 1..(T - 1) : topics[j].id # topics[T].id
           /\ \A i \in (F - n + 1)..F :
                 \A j \in 1..F : i # j => flashcards[i].id # flashcards[j].id

\* Two cards have been imported next to rehydrated data.
C6_Witness ==
    /\ lastOp.op = "import"
    /\ lastOp.arg[2] = 2
    /\ Len(topics) > 1

\* C7: importing a share payload never overwrites an existing topic with the same
\* name: when a topic with the payload's topic name already exists (including one
\* rehydrated from local storage during the same page load), the import adds no
\* topic and no cards, and the existing topic and the cards under it are unchanged.
C7_ImportKeepsExistingTopic ==
    [][ (/\ lastOp'.op = "import"
         /\ HasTopicNamed(Stored(storage.topics, <<>>), lastOp'.arg[1])) =>
           /\ topics' = Stored(storage.topics, <<>>)
           /\ flashcards' = Stored(storage.flashcards, <<>>) ]_vars

\* A payload has been loaded whose topic name a rehydrated topic has.
C7_Witness ==
    /\ lastOp.op = "import"
    /\ \E i \in 1..(Len(topics) - 1) : topics[i].name = lastOp.arg[1]

\* C19: persisted state round-trips through local storage.  At any point, a
\* reload of the page (with no share link) rehydrates exactly the topics,
\* flashcards, settings, active topic (including none) and Pomodoro stats held
\* just before the reload.
C19_ReloadRoundTrips ==
    [][ lastOp'.op = "load" =>
           /\ topics' = topics
           /\ flashcards' = flashcards
           /\ settings' = settings
           /\ activeTopic' = activeTopic
           /\ pomodoroStats' = pomodoroStats ]_vars

\* A reload after the last topic was deleted has brought back an active topic
\* that no topic has.
C19_Witness ==
    /\ lastOp.op = "load"
    /\ topics = <<>>
    /\ activeTopic # NULL

\* C20: topic display names are unique.  After any sequence of add-topic,
\* add-card, rename-topic and import operations no two topics have the same name.
C20_TopicNamesUnique ==
    \A i, j \in DOMAIN topics : topics[i].name = topics[j].name => i = j

\* The Add Topic form was submitted with the name of a topic that exists.
C20_Witness ==
    /\ lastOp.op = "addTopic"
    /\ Len(topics) = 2
    /\ topics[1].name = topics[2].name
    /\ topics[1].id # topics[2].id

\* C21: adding a card under the name of an existing topic adds exactly one card
\* and no topic; adding a card under a name no topic has adds exactly one card
\* and exactly one topic with that name.  In both cases the card count of the
\* name grows by one, so a topic added to an empty application followed by a
\* card under its name gives one topic, one card and a card count of 1.
C21_AddCardAddsOneCard ==
    [][ lastOp'.op \in {"addFlashcard", "addNewCard"} =>
           LET subject == lastOp'.arg[1]
               known == \E i \in DOMAIN topics : topics[i].name = subject
           IN /\ Len(flashcards') = Len(flashcards) + 1
              /\ SubSeq(flashcards', 1, Len(flashcards)) = flashcards
              /\ flashcards'[Len(flashcards')].subject = subject
              /\ cardCount(flashcards', subject) = cardCount(flashcards, subject) + 1
              /\ known => topics' = topics
              /\ ~known => /\ Len(topics') = Len(topics) + 1
                           /\ SubSeq(topics', 1, Len(topics)) = topics
                           /\ topics'[Len(topics')].name = subject
              /\ (Len(topics) = 1 /\ flashcards = <<>> /\ known) =>
                    /\ Len(topics') = 1
                    /\ Len(flashcards') = 1
                    /\ cardCount(flashcards', topics'[1].name) = 1 ]_vars

\* One topic was added to the empty application and then one card under its name.
C21_Witness ==
    /\ lastOp.op = "addFlashcard"
    /\ Len(topics) = 1
    /\ Len(flashcards) = 1
    /\ topics[1].name = lastOp.arg[1]

\* C22: an invalid share-link payload (not decodable, not JSON, or missing the
\* topic or the cards list) is ignored: after the load, topics, flashcards and
\* the active topic are what the load rehydrates without the share parameter.
C22_BadLinkIgnored ==
    [][ lastOp'.op = "loadBadLink" =>
           /\ topics' = Stored(storage.topics, <<>>)
           /\ flashcards' = Stored(storage.flashcards, <<>>)
           /\ activeTopic' = Stored(storage.activeTopic, NULL) ]_vars

\* A load with a payload that has a topic and no cards list has left a public
\* topic without cards as the active topic.
C22_Witness ==
    /\ lastOp = [op |-> "loadBadLink", arg |-> <<"noFlashcards">>]
    /\ topics # <<>>
    /\ topics[Len(topics)].isPublic
    /\ activeTopic = topics[Len(topics)].id
    /\ CardsOf(flashcards, topics[Len(topics)].name) = <<>>

\* C23: share round trip.  Generating a share payload for the active topic and
\* its cards and importing it into an application that has no topic of that name
\* yields one new topic with the same name, color and icon, marked public and
\* made the active topic, and one card per shared card with the same question,
\* in the same order, each with the topic name as subject.
C23_ShareRoundTrip ==
    [][ lastOp'.op = "share" =>
           LET topic == TopicById(topics, activeTopic)
               cards == ActiveFlashcards(topics, flashcards, activeTopic)
               link == generateShareUrl(topic, cards)
           IN /\ link # <<>>
              /\ LET got == loadSharedTopic(<<>>, <<>>, <<>>, NULL, link[1], nowMs,
                                            [i \in 1..Len(cards) |-> 0])
                 IN /\ Len(got.topics) = 1
                    /\ got.topics[1].name = topic.name
                    /\ got.topics[1].color = topic.color
                    /\ got.topics[1].icon = topic.icon
                    /\ got.topics[1].isPublic
                    /\ got.activeTopic = got.topics[1].id
                    /\ Len(got.flashcards) = Len(cards)
                    /\ \A i \in DOMAIN cards :
                          /\ got.flashcards[i].question = cards[i].question
                          /\ got.flashcards[i].subject = topic.name ]_vars

\* Generate Share Link was pressed for a topic with a card and made no URL.
C23_Witness ==
    /\ lastOp = [op |-> "share", arg |-> <<"threw">>]
    /\ ActiveFlashcards(topics, flashcards, activeTopic) # <<>>

\* C25: required text fields are enforced on every creation path.  No flashcard
\* has an empty or whitespace-only question or subject and no topic has an empty
\* or whitespace-only name, whether made by the add-flashcard wizard, the
\* add-topic modal or the add-card form of the edit-topic modal.
Blank(text) == trim(text) = ""

C25_RequiredFields ==
    /\ \A i \in DOMAIN flashcards :
          ~Blank(flashcards[i].question) /\ ~Blank(flashcards[i].subject)
    /\ \A i \in DOMAIN topics : ~Blank(topics[i].name)

\* The add-card form of the edit-topic modal has made a card with an empty
\* subject, and with it a topic with an empty name.
C25_Witness ==
    /\ lastOp = [op |-> "addNewCard", arg |-> <<"">>]
    /\ flashcards[Len(flashcards)].subject = ""
    /\ topics[Len(topics)].name = ""

\* ------------------------------------------------------------------------
\* Claims about sign-in
\* ------------------------------------------------------------------------
\* C24: the sign-in flow is sequential.  The authenticated step is entered only
\* from the confirmation step with a pending email and username, or by
\* rehydrating a stored user on load, never from the new-user or existing-user
\* form; and in every reachable state the step is authenticated exactly when a
\* user record is set.
C24_AuthSequential ==
    [][ /\ (authStep' = "authenticated" <=> user' # <<>>)
        /\ (authStep # "authenticated" /\ authStep' = "authenticated") =>
              \/ (authStep = "confirmation" /\ pendingAuth # <<>>)
              \/ (lastOp'.op = "reload" /\ storedUser # <<>>) ]_vars

\* A verification has completed on the new-user form, after Back was pressed.
C24_Witness ==
    /\ lastOp.op = "confirmDone"
    /\ authStep = "authenticated"
    /\ user # <<>>
    /\ \E i \in DOMAIN loginTimers : loginTimers[i].form = "newUser"

\* C30: if Back is pressed on the confirmation page while a code verification
\* is pending, the later completion of that verification does not authenticate
\* the user: the app remains on the new-user step with no user set and no
\* pending email and username.
C30_BackCancelsVerification ==
    [][ (/\ lastOp'.op = "confirmDone"
         /\ lastOp'.arg[2] = "unmounted"
         /\ authStep = "newUser"
         /\ user = <<>>
         /\ pendingAuth = <<>>) =>
           /\ authStep' = "newUser"
           /\ user' = <<>>
           /\ pendingAuth' = <<>> ]_vars

\* The verification of a confirmation page that was left by Back has completed
\* and a user is signed in and stored.
C30_Witness ==
    /\ lastOp.op = "confirmDone"
    /\ lastOp.arg[2] = "unmounted"
    /\ authStep = "authenticated"
    /\ storedUser = user
    /\ user # <<>>
    /\ loginTimers = <<>>
    /\ confirmTimers = <<>>

====
